---------------------------- MODULE Spec2Model ----------------------------
(***************************************************************************)
(* The workshop notebook mpidr_workshop.ipynb, run top to bottom, as a     *)
(* state machine: one action per code cell, the notebook's global names    *)
(* (msm, ber, y_msm, w_msm, ...) as variables.  The library calls the      *)
(* cells make (Queen.from_dataframe, W.transform = 'r', Moran,             *)
(* Moran_Local, to_crs, set_geometry) are operators that compute what the  *)
(* call computes.                                                          *)
(*                                                                         *)
(* Numbers are exact rationals <<num, den>>; den = 0 encodes the IEEE      *)
(* specials the numpy arithmetic of the calls produces: <<0,0>> is NaN,    *)
(* <<1,0>> is +inf, <<-1,0>> is -inf.                                      *)
(*                                                                         *)
(* Geometry is kept up to what contiguity reads.  A polygon is its set of  *)
(* boundary vertices (Queen contiguity: two polygons are neighbours iff    *)
(* they share a vertex) together with the Voronoi cell of its centroid; a  *)
(* point is the Voronoi cell the contiguity builder derives for it.        *)
(* The permutation p-values (random) and the drawing itself are not        *)
(* modelled; a plot is recorded by what is drawn over what.                *)
(***************************************************************************)
EXTENDS Integers, Sequences, FiniteSets

(* ------------------------------ bounds -------------------------------- *)

\* Largest number of features of a generated dataset.
MaxN == 3

\* Attribute values a generated dataset draws from.
AttrValues == {1, 2, 10}

\* Constant shifts applied to an attribute vector.
Shifts == {-3, 7}

(* ------------------------- rational arithmetic ------------------------ *)

Abs(a) == IF a < 0 THEN -a ELSE a

Sign(a) == IF a > 0 THEN 1 ELSE IF a < 0 THEN -1 ELSE 0

RECURSIVE GCD(_, _)
GCD(a, b) == IF b = 0 THEN a ELSE GCD(b, a % b)

\* The reduced fraction n/d, d >= 0; d = 0 gives NaN, +inf or -inf.
Norm(n, d) ==
    IF d = 0 THEN <<Sign(n), 0>>
    ELSE LET s == IF d < 0 THEN -1 ELSE 1
             g == GCD(Abs(n), Abs(d))
         IN  <<(s * n) \div g, (s * d) \div g>>

Rat(k) == <<k, 1>>
NaN == <<0, 0>>
IsNaN(a) == a = NaN
IsFinite(a) == a[2] # 0

RMul(a, b) == Norm(a[1] * b[1], a[2] * b[2])

RRecip(a) == IF a[1] < 0 THEN Norm(-a[2], -a[1]) ELSE Norm(a[2], a[1])

RDiv(a, b) == RMul(a, RRecip(b))

RAdd(a, b) ==
    IF IsFinite(a) /\ IsFinite(b) THEN Norm(a[1] * b[2] + b[1] * a[2], a[2] * b[2])
    ELSE IF IsNaN(a) \/ IsNaN(b) THEN NaN
    ELSE IF ~IsFinite(a) /\ ~IsFinite(b) THEN (IF a = b THEN a ELSE NaN)
    ELSE IF IsFinite(a) THEN b ELSE a

RNeg(a) == <<-a[1], a[2]>>

RSub(a, b) == RAdd(a, RNeg(b))

\* a > 0 as numpy compares: false for NaN.
RGt0(a) == a[1] > 0

RLt0(a) == a[1] < 0

\* The sum of f[i] over i in S.
RECURSIVE RSum(_, _)
RSum(f, S) ==
    IF S = {} THEN Rat(0)
    ELSE LET i == CHOOSE x \in S : TRUE
         IN  RAdd(f[i], RSum(f, S \ {i}))

RECURSIVE ISum(_, _)
ISum(f, S) ==
    IF S = {} THEN 0
    ELSE LET i == CHOOSE x \in S : TRUE
         IN  f[i] + ISum(f, S \ {i})

(* ------------------- libpysal: contiguity weights --------------------- *)

\* What contiguity reads of a shape: a polygon's vertices; for a point, the
\* Voronoi cell the builder derives first (Queen on points goes through
\* voronoi_frames).
ContigVerts(g) == IF g.kind = "Point" THEN g.cell ELSE g.verts

\* QueenNeighbors with each contact recorded at its lower id only.
QueenNeighborsOneWay(geoms) ==
    [i \in DOMAIN geoms |->
        {j \in DOMAIN geoms \ {i} :
            /\ j > i
            /\ ContigVerts(geoms[i]) \cap ContigVerts(geoms[j]) # {}}]

\* QueenNeighbors with the ids taken from the rows in reverse order.
QueenNeighborsReversed(geoms) ==
    LET last == Cardinality(DOMAIN geoms) - 1
    IN  [i \in DOMAIN geoms |->
            {last - j : j \in
                {k \in DOMAIN geoms \ {last - i} :
                    ContigVerts(geoms[last - i]) \cap ContigVerts(geoms[k]) # {}}}]

\* Queen criterion: i and j are neighbours iff their shapes share a vertex.
QueenNeighbors(geoms) ==
    [i \in DOMAIN geoms |->
        {j \in DOMAIN geoms \ {i} :
            ContigVerts(geoms[i]) \cap ContigVerts(geoms[j]) # {}}]

\* W.islands: the ids whose neighbour list is empty.
Islands(w) == {i \in DOMAIN w.neighbors : w.neighbors[i] = {}}

\* The ids reachable from the ids in R along neighbour links.
RECURSIVE Reach(_, _)
Reach(nb, R) ==
    LET R2 == R \cup UNION {nb[i] : i \in R}
    IN  IF R2 = R THEN R ELSE Reach(nb, R2)

\* W.n_components = 1.
FullyConnected(nb) ==
    \/ DOMAIN nb = {}
    \/ Reach(nb, {CHOOSE i \in DOMAIN nb : TRUE}) = DOMAIN nb

\* Queen.from_dataframe(df): binary weights over the active geometry column,
\* ids the row positions 0..n-1, every id keyed (an island by an empty list).
QueenFromDataframe(geoms) ==
    LET nb == QueenNeighbors(geoms)
    IN  [neighbors |-> nb,
         weights   |-> [i \in DOMAIN nb |-> [j \in nb[i] |-> Rat(1)]],
         transform |-> "O"]

\* BuildWarnings with the warning silenced.
BuildWarningsSilent(cell, name, w) == {}

\* The warning W.__init__ raises for a weights object that is not fully
\* connected; it lists the ids of the islands.
BuildWarnings(cell, name, w) ==
    IF FullyConnected(w.neighbors) THEN {}
    ELSE {[cell |-> cell, w |-> name, kind |-> "not fully connected",
           ids |-> Islands(w)]}

\* RowStandardize with every row divided by the largest possible row sum
\* instead of its own.
RowStandardizeByCount(w) ==
    LET orig == [i \in DOMAIN w.neighbors |-> [j \in w.neighbors[i] |-> Rat(1)]]
        most == Rat(Cardinality(DOMAIN w.neighbors) - 1)
    IN  [neighbors |-> w.neighbors,
         weights   |->
            [i \in DOMAIN w.neighbors |->
                [j \in w.neighbors[i] |-> RDiv(orig[i][j], most)]],
         transform |-> "R"]

\* w.transform = 'r': each original (binary) weight divided by its row sum.
\* The row of an island is empty, so nothing is divided by its zero row sum.
RowStandardize(w) ==
    LET orig == [i \in DOMAIN w.neighbors |-> [j \in w.neighbors[i] |-> Rat(1)]]
    IN  [neighbors |-> w.neighbors,
         weights   |->
            [i \in DOMAIN w.neighbors |->
                LET row_sum == RSum(orig[i], w.neighbors[i])
                IN  [j \in w.neighbors[i] |-> RDiv(orig[i][j], row_sum)]],
         transform |-> "R"]

\* TransformWarnings with the lines silenced.
TransformWarningsSilent(cell, name, w) == {}

\* The line set_transform prints for each row whose sum is zero.
TransformWarnings(cell, name, w) ==
    {[cell |-> cell, w |-> name, kind |-> "is an island (no neighbors)",
      ids |-> {i}] : i \in Islands(w)}

(* ----------------------- esda: Moran, Moran_Local --------------------- *)

Mean(y) == RDiv(Rat(ISum(y, DOMAIN y)), Rat(Cardinality(DOMAIN y)))

\* Deviations without the mean taken off.
DeviationsRaw(y) == [i \in DOMAIN y |-> Rat(y[i])]

\* z = y - y.mean()
Deviations(y) == [i \in DOMAIN y |-> RSub(Rat(y[i]), Mean(y))]

\* Lag with the neighbours' values summed unweighted.
LagSum(w, z) ==
    [i \in DOMAIN z |-> RSum([j \in w.neighbors[i] |-> z[j]], w.neighbors[i])]

\* slag(w, z): the weighted sum of the neighbours' values (0 for an island).
Lag(w, z) ==
    [i \in DOMAIN z |->
        RSum([j \in w.neighbors[i] |-> RMul(w.weights[i][j], z[j])],
             w.neighbors[i])]

\* w.s0: the sum of all weights.
S0(w) ==
    RSum([i \in DOMAIN w.neighbors |-> RSum(w.weights[i], w.neighbors[i])],
         DOMAIN w.neighbors)

SumSq(z) == RSum([i \in DOMAIN z |-> RMul(z[i], z[i])], DOMAIN z)

\* Moran(y, w).I = n / s0 * sum(z * slag(w, z)) / sum(z * z), over all n
\* observations, on w row-standardized (transformation = 'r').
MoranI(y, w) ==
    LET z    == Deviations(y)
        zl   == Lag(w, z)
        inum == RSum([i \in DOMAIN z |-> RMul(z[i], zl[i])], DOMAIN z)
        n    == Rat(Cardinality(DOMAIN y))
    IN  RDiv(RMul(RDiv(n, S0(w)), inum), SumSq(z))

Moran(y, w) ==
    [I |-> MoranI(y, RowStandardize(w)), n |-> Cardinality(DOMAIN y)]

\* Quadrant with the codes of LH and HL exchanged.
QuadrantSwapped(zi, lagi) ==
    IF RGt0(zi) THEN (IF RGt0(lagi) THEN 1 ELSE 2)
    ELSE (IF RGt0(lagi) THEN 4 ELSE 3)

\* Quadrant with >= 0 in place of > 0.
QuadrantGe(zi, lagi) ==
    IF ~RLt0(zi) THEN (IF ~RLt0(lagi) THEN 1 ELSE 4)
    ELSE (IF ~RLt0(lagi) THEN 2 ELSE 3)

\* Moran_Local.q: 1 HH, 2 LH, 3 LL, 4 HL, from z > 0 and lag > 0.
Quadrant(zi, lagi) ==
    IF RGt0(zi) THEN (IF RGt0(lagi) THEN 1 ELSE 4)
    ELSE (IF RGt0(lagi) THEN 2 ELSE 3)

\* Moran_Local(y, w): Is = (n-1) * z * slag(w, z) / sum(z * z) and the
\* quadrants.  esda scales z by y.std() first; the scale cancels in Is and
\* does not change a sign, and a zero std gives NaN and quadrant 3 as here.
MoranLocal(y, w) ==
    LET ws == RowStandardize(w)
        z  == Deviations(y)
        zl == Lag(ws, z)
        n1 == Rat(Cardinality(DOMAIN y) - 1)
    IN  [Is |-> [i \in DOMAIN y |->
                    RDiv(RMul(n1, RMul(z[i], zl[i])), SumSq(z))],
         q  |-> [i \in DOMAIN y |-> Quadrant(z[i], zl[i])]]

(* ------------------- geopandas: the two data frames ------------------- *)

\* GeoDataFrame.crs: the CRS of the active geometry column.
DfCrs(df) == df.crs[df.active]

ActiveGeoms(df) == IF df.active = "geometry" THEN df.geometry ELSE df.centroid

\* GeoSeries.centroid: one point per shape (a point is its own centroid).
CentroidOf(g) == [kind |-> "Point", verts |-> {}, cell |-> g.cell]

Centroids(df) == [i \in DOMAIN ActiveGeoms(df) |-> CentroidOf(ActiveGeoms(df)[i])]

\* ToCrs with the reprojected frame dropped.
ToCrsDropped(df, epsg) == df

\* df.to_crs(epsg=...): the active geometry column reprojected; the other
\* geometry column keeps its CRS.  Row count, order and topology are kept.
ToCrs(df, epsg) == [df EXCEPT !.crs[df.active] = epsg]

\* SetGeometry with its result dropped: the active column stays.
SetGeometryDropped(df, col) == df

\* df.set_geometry(col)
SetGeometry(df, col) == [df EXCEPT !.active = col]

\* df['centroid'] = df.centroid
AddCentroidColumn(df) ==
    [df EXCEPT !.centroid = Centroids(df),
               !.crs["centroid"] = DfCrs(df),
               !.columns = @ \cup {"centroid"}]

\* contextily's basemap tiles, and the CRS add_basemap(ax) assumes of the axes.
WebMercator == "EPSG:3857"

USNationalAtlas == "EPSG:2163"

(* ------------------------------- state -------------------------------- *)

VARIABLES
    pc,             \* the next code cell to run
    msm, ber,       \* the two GeoDataFrames
    y_msm, w_msm, y_ber, w_ber,
    moran_msm, moran_ber, moran_loc_msm, moran_loc_ber,
    coords_msm, coords_ber,
    bound,          \* the names assigned so far
    reprojected,    \* the frames to_crs has been applied to
    ops,            \* the weights constructions and coordinate extractions run
    shown,          \* the maps drawn
    warnings,       \* what the libraries reported
    errors          \* the cells that raised

vars == <<pc, msm, ber, y_msm, w_msm, y_ber, w_ber, moran_msm, moran_ber,
          moran_loc_msm, moran_loc_ber, coords_msm, coords_ber, bound,
          reprojected, ops, shown, warnings, errors>>

NoW == [neighbors |-> <<>>, weights |-> <<>>, transform |-> "O"]
NoY == [expr |-> "", data |-> <<>>]
NoMoran == [I |-> NaN, n |-> 0, w |-> NoW]
NoLocal == [Is |-> <<>>, q |-> <<>>, w |-> NoW]
NoCoords == [crs |-> "", pts |-> <<>>]

(* --------------------------- the code cells --------------------------- *)

Map(cell, data, crs, basemap, q) ==
    [cell |-> cell, data |-> data, crs |-> crs, basemap |-> basemap, q |-> q]

SpatialOp(cell, op, data, crs) ==
    [cell |-> cell, op |-> op, data |-> data, crs |-> crs,
     reprojected |-> data \in reprojected]

\* Moran_Local on weights with islands: the cell ends in the error the
\* notebook reports ("The error above occured because we have islands").
MoranLocalRaises(w) == Islands(w) # {}

\* msm.plot(...)
PlotMsm ==
    /\ pc = "PlotMsm"
    /\ shown' = shown \cup {Map("PlotMsm", "msm", DfCrs(msm), FALSE, <<>>)}
    /\ pc' = "PlotBer"
    /\ UNCHANGED <<msm, ber, y_msm, w_msm, y_ber, w_ber, moran_msm, moran_ber,
                   moran_loc_msm, moran_loc_ber, coords_msm, coords_ber, bound,
                   reprojected, ops, warnings, errors>>

\* ber.plot(...)
PlotBer ==
    /\ pc = "PlotBer"
    /\ shown' = shown \cup {Map("PlotBer", "ber", DfCrs(ber), FALSE, <<>>)}
    /\ pc' = "BasemapBer"
    /\ UNCHANGED <<msm, ber, y_msm, w_msm, y_ber, w_ber, moran_msm, moran_ber,
                   moran_loc_msm, moran_loc_ber, coords_msm, coords_ber, bound,
                   reprojected, ops, warnings, errors>>

\* ax = ber.plot(...); cx.add_basemap(ax)
BasemapBer ==
    /\ pc = "BasemapBer"
    /\ shown' = shown \cup {Map("BasemapBer", "ber", DfCrs(ber), TRUE, <<>>)}
    /\ pc' = "BasemapMsm"
    /\ UNCHANGED <<msm, ber, y_msm, w_msm, y_ber, w_ber, moran_msm, moran_ber,
                   moran_loc_msm, moran_loc_ber, coords_msm, coords_ber, bound,
                   reprojected, ops, warnings, errors>>

\* ax = msm.plot(...); cx.add_basemap(ax)
BasemapMsm ==
    /\ pc = "BasemapMsm"
    /\ shown' = shown \cup {Map("BasemapMsm", "msm", DfCrs(msm), TRUE, <<>>)}
    /\ pc' = "PrintCrs"
    /\ UNCHANGED <<msm, ber, y_msm, w_msm, y_ber, w_ber, moran_msm, moran_ber,
                   moran_loc_msm, moran_loc_ber, coords_msm, coords_ber, bound,
                   reprojected, ops, warnings, errors>>

\* print(msm.crs); print(ber.crs)
PrintCrs ==
    /\ pc = "PrintCrs"
    /\ pc' = "ReprojectMsm"
    /\ UNCHANGED <<msm, ber, y_msm, w_msm, y_ber, w_ber, moran_msm, moran_ber,
                   moran_loc_msm, moran_loc_ber, coords_msm, coords_ber, bound,
                   reprojected, ops, shown, warnings, errors>>

\* msm = msm.to_crs(epsg=3857); ax1 = msm.plot(...); cx.add_basemap(ax1)
ReprojectMsm ==
    /\ pc = "ReprojectMsm"
    /\ msm' = ToCrs(msm, WebMercator)
    /\ reprojected' = reprojected \cup {"msm"}
    /\ shown' = shown \cup {Map("ReprojectMsm", "msm", DfCrs(msm'), TRUE, <<>>)}
    /\ pc' = "BuildWeights"
    /\ UNCHANGED <<ber, y_msm, w_msm, y_ber, w_ber, moran_msm, moran_ber,
                   moran_loc_msm, moran_loc_ber, coords_msm, coords_ber, bound,
                   ops, warnings, errors>>

\* y_msm = msm['same_sex_m']; w_msm = Queen.from_dataframe(msm);
\* w_msm.transform = 'r'; the same for y_ber, w_ber.
BuildWeights ==
    /\ pc = "BuildWeights"
    /\ y_msm' = [expr |-> "same_sex_m", data |-> msm.same_sex_m]
    /\ w_msm' = RowStandardize(QueenFromDataframe(ActiveGeoms(msm)))
    /\ y_ber' = [expr |-> "price", data |-> ber.price]
    /\ w_ber' = RowStandardize(QueenFromDataframe(ActiveGeoms(ber)))
    /\ warnings' = warnings
            \cup BuildWarnings("BuildWeights", "w_msm", w_msm')
            \cup TransformWarnings("BuildWeights", "w_msm", w_msm')
            \cup BuildWarnings("BuildWeights", "w_ber", w_ber')
            \cup TransformWarnings("BuildWeights", "w_ber", w_ber')
    /\ ops' = ops \cup {SpatialOp("BuildWeights", "weights", "msm", DfCrs(msm)),
                        SpatialOp("BuildWeights", "weights", "ber", DfCrs(ber))}
    /\ bound' = bound \cup {"y_msm", "w_msm", "y_ber", "w_ber"}
    /\ pc' = "GlobalMsm"
    /\ UNCHANGED <<msm, ber, moran_msm, moran_ber, moran_loc_msm, moran_loc_ber,
                   coords_msm, coords_ber, reprojected, shown, errors>>

\* moran_msm = Moran(y_msm, w_msm); print I and p_sim; plot_moran
GlobalMsm ==
    /\ pc = "GlobalMsm"
    /\ w_msm' = RowStandardize(w_msm)
    /\ LET m == Moran(y_msm.data, w_msm)
       IN  moran_msm' = [I |-> m.I, n |-> m.n, w |-> w_msm']
    /\ bound' = bound \cup {"moran_msm"}
    /\ pc' = "GlobalBer"
    /\ UNCHANGED <<msm, ber, y_msm, y_ber, w_ber, moran_ber, moran_loc_msm,
                   moran_loc_ber, coords_msm, coords_ber, reprojected, ops,
                   shown, warnings, errors>>

\* moran_ber = Moran(y_ber, w_ber); print I and p_sim; plot_moran
GlobalBer ==
    /\ pc = "GlobalBer"
    /\ w_ber' = RowStandardize(w_ber)
    /\ LET m == Moran(y_ber.data, w_ber)
       IN  moran_ber' = [I |-> m.I, n |-> m.n, w |-> w_ber']
    /\ bound' = bound \cup {"moran_ber"}
    /\ pc' = "LocalMsmPolygons"
    /\ UNCHANGED <<msm, ber, y_msm, w_msm, y_ber, moran_msm, moran_loc_msm,
                   moran_loc_ber, coords_msm, coords_ber, reprojected, ops,
                   shown, warnings, errors>>

\* moran_loc_msm = Moran_Local(y_msm, w_msm); moran_scatterplot (on the
\* polygon-derived weights)
LocalMsmPolygons ==
    /\ pc = "LocalMsmPolygons"
    /\ IF MoranLocalRaises(w_msm)
       THEN /\ errors' = errors \cup {"LocalMsmPolygons"}
            /\ UNCHANGED <<moran_loc_msm, bound>>
       ELSE /\ LET m == MoranLocal(y_msm.data, w_msm)
               IN  moran_loc_msm' = [Is |-> m.Is, q |-> m.q, w |-> w_msm]
            /\ bound' = bound \cup {"moran_loc_msm"}
            /\ UNCHANGED errors
    /\ pc' = "CentroidColumn"
    /\ UNCHANGED <<msm, ber, y_msm, w_msm, y_ber, w_ber, moran_msm, moran_ber,
                   moran_loc_ber, coords_msm, coords_ber, reprojected, ops,
                   shown, warnings>>

\* msm['centroid'] = msm.centroid; the neighbour connections drawn between
\* centroids[k] and centroids[neigh] for k, neighs in w_msm.neighbors.items()
CentroidColumn ==
    /\ pc = "CentroidColumn"
    /\ msm' = AddCentroidColumn(msm)
    /\ shown' = shown \cup
            {Map("CentroidColumn", "w_msm connections", msm'.crs["centroid"],
                 FALSE, <<>>)}
    /\ pc' = "CentroidWeights"
    /\ UNCHANGED <<ber, y_msm, w_msm, y_ber, w_ber, moran_msm, moran_ber,
                   moran_loc_msm, moran_loc_ber, coords_msm, coords_ber, bound,
                   reprojected, ops, warnings, errors>>

\* msm = msm.set_geometry('centroid'); y_msm = msm['same_sex_m'];
\* w_msm = Queen.from_dataframe(msm); w_msm.transform = 'r'
CentroidWeights ==
    /\ pc = "CentroidWeights"
    /\ msm' = SetGeometry(msm, "centroid")
    /\ y_msm' = [expr |-> "same_sex_m", data |-> msm'.same_sex_m]
    /\ w_msm' = RowStandardize(QueenFromDataframe(ActiveGeoms(msm')))
    /\ warnings' = warnings
            \cup BuildWarnings("CentroidWeights", "w_msm", w_msm')
            \cup TransformWarnings("CentroidWeights", "w_msm", w_msm')
    /\ ops' = ops \cup {SpatialOp("CentroidWeights", "weights", "msm", DfCrs(msm'))}
    /\ pc' = "CentroidConnections"
    /\ UNCHANGED <<ber, y_ber, w_ber, moran_msm, moran_ber, moran_loc_msm,
                   moran_loc_ber, coords_msm, coords_ber, bound, reprojected,
                   shown, errors>>

\* the connections of the centroid-derived weights drawn again
CentroidConnections ==
    /\ pc = "CentroidConnections"
    /\ shown' = shown \cup
            {Map("CentroidConnections", "w_msm connections", msm.crs["centroid"],
                 FALSE, <<>>)}
    /\ pc' = "LocalMsm"
    /\ UNCHANGED <<msm, ber, y_msm, w_msm, y_ber, w_ber, moran_msm, moran_ber,
                   moran_loc_msm, moran_loc_ber, coords_msm, coords_ber, bound,
                   reprojected, ops, warnings, errors>>

\* moran_loc_msm = Moran_Local(y_msm, w_msm); moran_scatterplot
LocalMsm ==
    /\ pc = "LocalMsm"
    /\ IF MoranLocalRaises(w_msm)
       THEN /\ errors' = errors \cup {"LocalMsm"}
            /\ UNCHANGED <<moran_loc_msm, bound>>
       ELSE /\ LET m == MoranLocal(y_msm.data, w_msm)
               IN  moran_loc_msm' = [Is |-> m.Is, q |-> m.q, w |-> w_msm]
            /\ bound' = bound \cup {"moran_loc_msm"}
            /\ UNCHANGED errors
    /\ pc' = "LocalBer"
    /\ UNCHANGED <<msm, ber, y_msm, w_msm, y_ber, w_ber, moran_msm, moran_ber,
                   moran_loc_ber, coords_msm, coords_ber, reprojected, ops,
                   shown, warnings>>

\* moran_loc_ber = Moran_Local(y_ber, w_ber); moran_scatterplot
LocalBer ==
    /\ pc = "LocalBer"
    /\ IF MoranLocalRaises(w_ber)
       THEN /\ errors' = errors \cup {"LocalBer"}
            /\ UNCHANGED <<moran_loc_ber, bound>>
       ELSE /\ LET m == MoranLocal(y_ber.data, w_ber)
               IN  moran_loc_ber' = [Is |-> m.Is, q |-> m.q, w |-> w_ber]
            /\ bound' = bound \cup {"moran_loc_ber"}
            /\ UNCHANGED errors
    /\ pc' = "LisaMsm"
    /\ UNCHANGED <<msm, ber, y_msm, w_msm, y_ber, w_ber, moran_msm, moran_ber,
                   moran_loc_msm, coords_msm, coords_ber, reprojected, ops,
                   shown, warnings>>

\* msm = msm.set_geometry('geometry'); msm = msm.to_crs(epsg=2163);
\* lisa_cluster(moran_loc_msm, msm, p=0.05)
LisaMsm ==
    /\ pc = "LisaMsm"
    /\ msm' = ToCrs(SetGeometry(msm, "geometry"), USNationalAtlas)
    /\ reprojected' = reprojected \cup {"msm"}
    /\ IF "moran_loc_msm" \in bound
       THEN /\ shown' = shown \cup
                    {Map("LisaMsm", "msm", DfCrs(msm'), FALSE, moran_loc_msm.q)}
            /\ UNCHANGED errors
       ELSE /\ errors' = errors \cup {"LisaMsm"}
            /\ UNCHANGED shown
    /\ pc' = "LisaBer"
    /\ UNCHANGED <<ber, y_msm, w_msm, y_ber, w_ber, moran_msm, moran_ber,
                   moran_loc_msm, moran_loc_ber, coords_msm, coords_ber, bound,
                   ops, warnings>>

\* lisa_cluster(moran_loc_ber, ber, p=0.05); cx.add_basemap(ax)
LisaBer ==
    /\ pc = "LisaBer"
    /\ IF "moran_loc_ber" \in bound
       THEN /\ shown' = shown \cup
                    {Map("LisaBer", "ber", DfCrs(ber), TRUE, moran_loc_ber.q)}
            /\ UNCHANGED errors
       ELSE /\ errors' = errors \cup {"LisaBer"}
            /\ UNCHANGED shown
    /\ pc' = "Dmatrices"
    /\ UNCHANGED <<msm, ber, y_msm, w_msm, y_ber, w_ber, moran_msm, moran_ber,
                   moran_loc_msm, moran_loc_ber, coords_msm, coords_ber, bound,
                   reprojected, ops, warnings>>

\* y_msm, X_msm = patsy.dmatrices('standardize(same_sex_m) ~ ...', data=msm);
\* the same for y_ber, X_ber.  The names are rebound to design matrices, which
\* no later modelled cell reads.
Dmatrices ==
    /\ pc = "Dmatrices"
    /\ y_msm' = [expr |-> "standardize(same_sex_m)", data |-> msm.same_sex_m]
    /\ y_ber' = [expr |-> "standardize(price)", data |-> ber.price]
    /\ pc' = "Coords"
    /\ UNCHANGED <<msm, ber, w_msm, w_ber, moran_msm, moran_ber, moran_loc_msm,
                   moran_loc_ber, coords_msm, coords_ber, bound, reprojected,
                   ops, shown, warnings, errors>>

\* coords_msm from msm['centroid'].to_crs(epsg=3857); ber['centroid'] =
\* ber.centroid; coords_ber from ber['centroid'].to_crs(epsg=3857)
Coords ==
    /\ pc = "Coords"
    /\ coords_msm' = [crs |-> WebMercator, pts |-> msm.centroid]
    /\ ber' = AddCentroidColumn(ber)
    /\ coords_ber' = [crs |-> WebMercator, pts |-> ber'.centroid]
    /\ ops' = ops \cup
            {[cell |-> "Coords", op |-> "coords", data |-> "msm",
              crs |-> coords_msm'.crs, reprojected |-> TRUE],
             [cell |-> "Coords", op |-> "coords", data |-> "ber",
              crs |-> coords_ber'.crs, reprojected |-> TRUE]}
    /\ bound' = bound \cup {"coords_msm", "coords_ber"}
    /\ pc' = "Done"
    /\ UNCHANGED <<msm, y_msm, w_msm, y_ber, w_ber, moran_msm, moran_ber,
                   moran_loc_msm, moran_loc_ber, reprojected, shown, warnings,
                   errors>>

Next ==
    \/ PlotMsm
    \/ PlotBer
    \/ BasemapBer
    \/ BasemapMsm
    \/ PrintCrs
    \/ ReprojectMsm
    \/ BuildWeights
    \/ GlobalMsm
    \/ GlobalBer
    \/ LocalMsmPolygons
    \/ CentroidColumn
    \/ CentroidWeights
    \/ CentroidConnections
    \/ LocalMsm
    \/ LocalBer
    \/ LisaMsm
    \/ LisaBer
    \/ Dmatrices
    \/ Coords

(* ------------------------- the loaded datasets ------------------------ *)

Ids(n) == 0 .. (n - 1)

\* A column of values, keyed by row position 0..n-1.
Column(values) == [i \in Ids(Len(values)) |-> values[i + 1]]

\* The unordered pairs of feature ids: the candidate contacts of a layout.
Pairs(n) == {e \in Ids(n) \X Ids(n) : e[1] < e[2]}

\* A layout realising the contact graph g: shape i owns vertex <<i,i>> and
\* shares vertex <<i,j>> with shape j for every contact <<i,j>> of g.
GraphVerts(n, g) ==
    [i \in Ids(n) |-> {<<i, i>>} \cup {e \in g : e[1] = i \/ e[2] = i}]

\* Voronoi cells of distinct points tile the plane: their contact graph is
\* connected.
ConnectedGraphs(n) ==
    {h \in SUBSET Pairs(n) : FullyConnected(QueenNeighbors(
        [i \in Ids(n) |-> [kind |-> "Point", verts |-> {},
                           cell |-> GraphVerts(n, h)[i]]]))}

Chain(n) == {e \in Pairs(n) : e[2] = e[1] + 1}

\* n polygons in contact as g says, whose centroids' Voronoi cells are in
\* contact as h says.
Polygons(n, g, h) ==
    [i \in Ids(n) |-> [kind |-> "Polygon", verts |-> GraphVerts(n, g)[i],
                       cell |-> GraphVerts(n, h)[i]]]

Points(n, h) ==
    [i \in Ids(n) |-> [kind |-> "Point", verts |-> {}, cell |-> GraphVerts(n, h)[i]]]

\* msm = gpd.read_file("data\msm_data.shp"), same_sex_m cast to float.
MsmFrame(geoms, y, crs) ==
    [geometry |-> geoms, centroid |-> <<>>, same_sex_m |-> y,
     crs |-> [geometry |-> crs, centroid |-> ""], active |-> "geometry",
     columns |-> {"geometry", "same_sex_m"}]

\* ber = gpd.read_file(prenzlauer.zip): points, in Web Mercator.
BerFrame(geoms, y) ==
    [geometry |-> geoms, centroid |-> <<>>, price |-> y,
     crs |-> [geometry |-> WebMercator, centroid |-> ""], active |-> "geometry",
     columns |-> {"geometry", "price"}]

\* The state after the load cell, for the frames given.
Loaded(m, b) ==
    /\ pc = "PlotMsm"
    /\ msm = m
    /\ ber = b
    /\ y_msm = NoY /\ y_ber = NoY
    /\ w_msm = NoW /\ w_ber = NoW
    /\ moran_msm = NoMoran /\ moran_ber = NoMoran
    /\ moran_loc_msm = NoLocal /\ moran_loc_ber = NoLocal
    /\ coords_msm = NoCoords /\ coords_ber = NoCoords
    /\ bound = {"msm", "ber"}
    /\ reprojected = {}
    /\ ops = {}
    /\ shown = {}
    /\ warnings = {}
    /\ errors = {}

\* A small Berlin sample: three listings in a row.
SampleBer == BerFrame(Points(3, Chain(3)), Column(<<1, 2, 10>>))

\* A small county sample: two touching counties and one island county.
SampleMsm(crs) ==
    MsmFrame(Polygons(3, {<<0, 1>>}, Chain(3)),
             Column(<<1, 10, 2>>), crs)

\* Any polygon layout and attribute vector for msm (centroid cells in a row).
\* msm_data.shp comes in a geographic CRS, not the basemap's: NAD83 here,
\* WGS 84 in InitCentroids.
InitPolygons ==
    \E n \in 2 .. MaxN :
        \E g \in SUBSET Pairs(n), y \in [Ids(n) -> AttrValues] :
            Loaded(MsmFrame(Polygons(n, g, Chain(n)), y, "EPSG:4269"), SampleBer)

\* Any Voronoi contact graph of the centroids of msm, the last county an
\* island of the polygon layout.
InitCentroids ==
    \E n \in 2 .. MaxN :
        \E h \in ConnectedGraphs(n), y \in [Ids(n) -> AttrValues] :
            Loaded(MsmFrame(Polygons(n, Chain(n - 1), h), y, "EPSG:4326"), SampleBer)

\* Any point layout and attribute vector for ber.
InitPoints ==
    \E n \in 2 .. MaxN :
        \E h \in ConnectedGraphs(n), y \in [Ids(n) -> AttrValues] :
            Loaded(SampleMsm("EPSG:4269"), BerFrame(Points(n, h), y))

\* Four polygons in a 2 x 2 arrangement, feature 2b + a at column a of row b.
GridCells == {<<0, 0>>, <<1, 0>>, <<0, 1>>, <<1, 1>>}

GridIndex(c) == 2 * c[2] + c[1]

\* The cells next to each other in a row or a column, and the diagonal ones.
GridEdgeContacts ==
    {<<GridIndex(c), GridIndex(d)>> : <<c, d>> \in
        {e \in GridCells \X GridCells :
            /\ GridIndex(e[1]) < GridIndex(e[2])
            /\ Abs(e[1][1] - e[2][1]) + Abs(e[1][2] - e[2][2]) = 1}}

GridCornerContacts ==
    {<<GridIndex(c), GridIndex(d)>> : <<c, d>> \in
        {e \in GridCells \X GridCells :
            /\ GridIndex(e[1]) < GridIndex(e[2])
            /\ Abs(e[1][1] - e[2][1]) + Abs(e[1][2] - e[2][2]) = 2}}

\* The 2 x 2 arrangements: every way the four polygons can be cut so that a
\* pair of them does or does not share a vertex (squares share the centre
\* vertex too; corners cut at the centre leave each with its two
\* grid-neighbours), with attribute values 1 and 10.
InitGrid ==
    \E g \in SUBSET (GridEdgeContacts \cup GridCornerContacts),
       y \in [Ids(Cardinality(GridCells)) -> {1, 10}] :
        Loaded(MsmFrame(Polygons(Cardinality(GridCells), g,
                                 GridEdgeContacts \cup GridCornerContacts),
                        y, "EPSG:4269"),
               SampleBer)

Init == InitPolygons \/ InitCentroids \/ InitPoints \/ InitGrid

Spec == Init /\ [][Next]_vars

(* ------------------------ positions in the run ------------------------ *)

CellOrder ==
    <<"PlotMsm", "PlotBer", "BasemapBer", "BasemapMsm", "PrintCrs",
      "ReprojectMsm", "BuildWeights", "GlobalMsm", "GlobalBer",
      "LocalMsmPolygons", "CentroidColumn", "CentroidWeights",
      "CentroidConnections", "LocalMsm", "LocalBer", "LisaMsm", "LisaBer",
      "Dmatrices", "Coords", "Done">>

Rank(cell) == CHOOSE k \in DOMAIN CellOrder : CellOrder[k] = cell

\* The cell has run.
Ran(cell) == Rank(pc) > Rank(cell)

\* The cell is the last that ran: the state is the one it left.
JustRan(cell) == Rank(pc) = Rank(cell) + 1

(* ------------------------------ claims -------------------------------- *)

\* The deviation of y[i] from the mean, scaled by n: n * y[i] - sum(y).
Dev(y, i) == Cardinality(DOMAIN y) * y[i] - ISum(y, DOMAIN y)

\* The sum of the neighbours' scaled deviations; its sign is the sign of the
\* neighbours' average deviation.
NbDev(y, w, i) == ISum([j \in w.neighbors[i] |-> Dev(y, j)], w.neighbors[i])

IsConstant(y) == \A i, j \in DOMAIN y : y[i] = y[j]

RowSumsAreOne(w) ==
    w.transform = "R" =>
        \A i \in DOMAIN w.neighbors :
            w.neighbors[i] # {} => RSum(w.weights[i], w.neighbors[i]) = Rat(1)

\* C1: after row-standardization the weights of every feature that has at
\* least one neighbour sum to 1, in every weights object the notebook holds.
C1_RowStandardizedSumsToOne == RowSumsAreOne(w_msm) /\ RowSumsAreOne(w_ber)

\* Row-standardized weights of three or more mutually adjacent features.
C1_Witness ==
    /\ Ran("BuildWeights")
    /\ w_msm.transform = "R"
    /\ Cardinality(DOMAIN w_msm.neighbors) >= 3
    /\ \A i \in DOMAIN w_msm.neighbors :
            w_msm.neighbors[i] = DOMAIN w_msm.neighbors \ {i}

\* C2 (as claimed): a global statistic computed on weights with one isolated
\* feature is not NaN, and either leaves the isolated feature out of its
\* observations or the cell fails.  (Stated for an attribute that is not
\* constant; a constant one is the case of C5.)
C2_GlobalExcludesOrFails ==
    (/\ Ran("GlobalMsm")
     /\ Cardinality(Islands(moran_msm.w)) = 1
     /\ ~IsConstant(y_msm.data)) =>
        /\ ~IsNaN(moran_msm.I)
        /\ \/ moran_msm.n = Cardinality(DOMAIN moran_msm.w.neighbors) - 1
           \/ "GlobalMsm" \in errors

\* C3 (as claimed): the local statistic on weights with islands completes and
\* gives an entry per feature, outside the four classes exactly for the
\* islands.
C3_LocalUndefinedForIslands ==
    (pc = "CentroidColumn" /\ Islands(w_msm) # {}) =>
        /\ "LocalMsmPolygons" \notin errors
        /\ "moran_loc_msm" \in bound
        /\ DOMAIN moran_loc_msm.q = DOMAIN y_msm.data
        /\ \A i \in DOMAIN moran_loc_msm.q :
                (moran_loc_msm.q[i] \in 1 .. 4) <=> (i \notin Islands(w_msm))

\* The ids the build of the weights object reported as islands.
ReportedIslands(cell, name) ==
    UNION {r.ids : r \in {x \in warnings :
                            /\ x.cell = cell
                            /\ x.w = name
                            /\ x.kind = "not fully connected"}}

BuildIsFaithful(cell, name, w, geoms) ==
    /\ DOMAIN w.neighbors = DOMAIN geoms
    /\ \A i \in DOMAIN geoms :
            (w.neighbors[i] = {}) <=>
                (\A j \in DOMAIN geoms \ {i} :
                    ContigVerts(geoms[i]) \cap ContigVerts(geoms[j]) = {})
    /\ ReportedIslands(cell, name) = {i \in DOMAIN geoms : w.neighbors[i] = {}}

\* C4: every weights object a cell builds has, when the cell ends, an entry
\* for every feature of the frame, a feature sharing no vertex with another
\* has the empty neighbour set, and the islands the build reported are
\* exactly those features.
C4_BuildReportsIslands ==
    /\ JustRan("BuildWeights") =>
            /\ BuildIsFaithful("BuildWeights", "w_ber", w_ber, ber.geometry)
            /\ BuildIsFaithful("BuildWeights", "w_msm", w_msm, msm.geometry)
    /\ JustRan("CentroidWeights") =>
            BuildIsFaithful("CentroidWeights", "w_msm", w_msm, msm.centroid)

\* Weights built with some islands and some connected features.
C4_Witness ==
    /\ JustRan("BuildWeights")
    /\ Islands(w_msm) # {}
    /\ Islands(w_msm) # DOMAIN w_msm.neighbors
    /\ ReportedIslands("BuildWeights", "w_msm") = Islands(w_msm)

\* C5 (as claimed): the global statistic of an attribute whose values are all
\* identical is 0.  (Stated for weights without islands, where the zero
\* variance is the only division by zero.)
C5_ConstantGivesZero ==
    /\ (Ran("GlobalMsm") /\ IsConstant(y_msm.data) /\ Islands(moran_msm.w) = {}) =>
            moran_msm.I = Rat(0)
    /\ (Ran("GlobalBer") /\ IsConstant(y_ber.data) /\ Islands(moran_ber.w) = {}) =>
            moran_ber.I = Rat(0)

\* Each feature of the 2 x 2 grid adjacent to exactly its two grid-neighbours.
GridRing(w) ==
    /\ DOMAIN w.neighbors = Ids(Cardinality(GridCells))
    /\ \A i \in DOMAIN w.neighbors :
            w.neighbors[i] =
                {j \in DOMAIN w.neighbors :
                    <<i, j>> \in GridEdgeContacts \/ <<j, i>> \in GridEdgeContacts}

GridScenario ==
    /\ pc = "CentroidColumn"
    /\ "moran_loc_msm" \in bound
    /\ GridRing(moran_msm.w)
    /\ GridRing(moran_loc_msm.w)
    /\ y_msm.data = Column(<<1, 1, 10, 10>>)

\* C6 (as claimed): in the grid scenario the global statistic is positive,
\* the features with value 1 are low-near-low and those with value 10
\* high-near-high.
C6_GridPositiveClustering ==
    GridScenario =>
        /\ RGt0(moran_msm.I)
        /\ moran_loc_msm.q = Column(<<3, 3, 1, 1>>)

\* C6 (amended): in the grid scenario every feature has one neighbour of its
\* own value and one of the other, so the global statistic is exactly 0, the
\* features with value 1 are low-near-low and those with value 10
\* high-near-low.
C6_GridNoClustering ==
    GridScenario =>
        /\ moran_msm.I = Rat(0)
        /\ moran_loc_msm.q = Column(<<3, 3, 4, 4>>)

C6_Witness == GridScenario

Shifted(y, c) == [i \in DOMAIN y |-> y[i] + c]

\* C7: the classes of the local statistic a cell computed on y are, feature
\* by feature, the classes computed on y + c, for every shift c.
C7_ShiftInvariantClasses ==
    \A c \in Shifts :
        /\ (JustRan("LocalBer") /\ "moran_loc_ber" \in bound) =>
                MoranLocal(Shifted(y_ber.data, c), moran_loc_ber.w).q = moran_loc_ber.q
        /\ ((JustRan("LocalMsmPolygons") \/ JustRan("LocalMsm"))
                /\ "moran_loc_msm" \in bound) =>
                MoranLocal(Shifted(y_msm.data, c), moran_loc_msm.w).q = moran_loc_msm.q

\* A local statistic with two classes, on values a shift moves across 0.
C7_Witness ==
    /\ JustRan("LocalBer")
    /\ "moran_loc_ber" \in bound
    /\ \E i, j \in DOMAIN moran_loc_ber.q : moran_loc_ber.q[i] # moran_loc_ber.q[j]
    /\ \E c \in Shifts, i \in DOMAIN y_ber.data : y_ber.data[i] + c < 0

ClassesBySign(y, r) ==
    /\ DOMAIN r.q = DOMAIN y
    /\ DOMAIN r.Is = DOMAIN y
    /\ \A i \in DOMAIN y :
        /\ r.q[i] \in 1 .. 4
        /\ (Dev(y, i) > 0 /\ NbDev(y, r.w, i) > 0) => r.q[i] = 1
        /\ (Dev(y, i) > 0 /\ NbDev(y, r.w, i) < 0) => r.q[i] = 4
        /\ (Dev(y, i) < 0 /\ NbDev(y, r.w, i) > 0) => r.q[i] = 2
        /\ (Dev(y, i) < 0 /\ NbDev(y, r.w, i) < 0) => r.q[i] = 3

\* C8: a local statistic a cell computed has one entry per feature index,
\* each in one of the four classes, and the class is the one the signs of the
\* feature's own
\* deviation and of its neighbours' average deviation give: (+,+) both-high
\* (1), (+,-) high-near-low (4), (-,+) low-near-high (2), (-,-) both-low (3).
C8_ClassPerFeatureBySigns ==
    /\ (JustRan("LocalBer") /\ "moran_loc_ber" \in bound) =>
            ClassesBySign(y_ber.data, moran_loc_ber)
    /\ ((JustRan("LocalMsmPolygons") \/ JustRan("LocalMsm"))
            /\ "moran_loc_msm" \in bound) =>
            ClassesBySign(y_msm.data, moran_loc_msm)

\* A local statistic in which three of the four sign combinations occur.
C8_Witness ==
    /\ JustRan("LocalMsmPolygons")
    /\ "moran_loc_msm" \in bound
    /\ \A i \in DOMAIN y_msm.data :
            Dev(y_msm.data, i) # 0 /\ NbDev(y_msm.data, moran_loc_msm.w, i) # 0
    /\ Cardinality({moran_loc_msm.q[i] : i \in DOMAIN moran_loc_msm.q}) >= 3

\* sum(dev * average neighbour deviation) / sum(dev^2), from the scaled
\* deviations (the scale n cancels).
CovarianceRatio(y, w) ==
    RDiv(RSum([i \in DOMAIN y |->
                  Norm(Dev(y, i) * NbDev(y, w, i), Cardinality(w.neighbors[i]))],
              DOMAIN y),
         Rat(ISum([i \in DOMAIN y |-> Dev(y, i) * Dev(y, i)], DOMAIN y)))

GlobalIsCovarianceRatio(y, m) ==
    (Islands(m.w) = {} /\ ~IsConstant(y)) =>
        /\ m.I = CovarianceRatio(y, m.w)
        /\ (\A i \in DOMAIN y : Dev(y, i) * NbDev(y, m.w, i) > 0) => RGt0(m.I)
        /\ (\A i \in DOMAIN y : Dev(y, i) * NbDev(y, m.w, i) < 0) => RLt0(m.I)

\* C9: on row-standardized weights without islands and an attribute that is
\* not constant, the global statistic a cell computed is the sum over the
\* features of the deviation times the neighbours' average deviation, divided by the sum of
\* squared deviations; it is positive when the two have the same sign at
\* every feature and negative when they have opposite signs at every feature.
C9_GlobalIsCovarianceRatio ==
    /\ JustRan("GlobalMsm") => GlobalIsCovarianceRatio(y_msm.data, moran_msm)
    /\ JustRan("GlobalBer") => GlobalIsCovarianceRatio(y_ber.data, moran_ber)

\* A global statistic where every deviation agrees in sign with the
\* neighbours' average deviation.
C9_Witness ==
    /\ JustRan("GlobalMsm")
    /\ Islands(moran_msm.w) = {}
    /\ ~IsConstant(y_msm.data)
    /\ \A i \in DOMAIN y_msm.data :
            Dev(y_msm.data, i) * NbDev(y_msm.data, moran_msm.w, i) > 0
    /\ moran_msm.I = CovarianceRatio(y_msm.data, moran_msm.w)

\* C10 (as claimed): every weights construction and coordinate extraction runs
\* on a dataset that was reprojected before.
C10_ReprojectedBeforeUse == \A o \in ops : o.reprojected

\* C10 (amended): every weights construction and coordinate extraction runs
\* on geometry in the common reference EPSG:3857; msm was reprojected to it
\* before, ber's weights are built on ber as loaded, never reprojected.
C10_CommonCrsBeforeUse ==
    \A o \in ops :
        /\ o.crs = WebMercator
        /\ o.data = "msm" => o.reprojected
        /\ (o.data = "ber" /\ o.op = "weights") => ~o.reprojected

\* All weights constructions and coordinate extractions have run.
C10_Witness ==
    /\ pc = "Done"
    /\ \E o \in ops : o.cell = "BuildWeights" /\ o.data = "msm"
    /\ \E o \in ops : o.cell = "BuildWeights" /\ o.data = "ber"
    /\ \E o \in ops : o.cell = "CentroidWeights"
    /\ \E o \in ops : o.cell = "Coords" /\ o.data = "ber"

\* C11 (as claimed): no map is drawn over the basemap with data in a CRS other
\* than the basemap's.
C11_NoJointDisplayWithMismatch ==
    \A m \in shown : m.basemap => m.crs = WebMercator

\* The ids set_transform flagged while the weights object was standardized.
FlaggedIslands(cell, name) ==
    UNION {r.ids : r \in {x \in warnings :
                            /\ x.cell = cell
                            /\ x.w = name
                            /\ x.kind = "is an island (no neighbors)"}}

StandardizeFlagsIslands(cell, name, w) ==
    /\ cell \notin errors
    /\ w.transform = "R"
    /\ FlaggedIslands(cell, name) = Islands(w)
    /\ \A i \in DOMAIN w.neighbors :
            IF w.neighbors[i] = {}
            THEN DOMAIN w.weights[i] = {}
            ELSE RSum(w.weights[i], w.neighbors[i]) = Rat(1)

\* C12: when a cell has row-standardized a weights object, the cell has not
\* raised, the features flagged as islands are exactly the zero-neighbour
\* features, those have no weights, and the weights of every other feature
\* sum to 1.
C12_StandardizeFlagsIslands ==
    /\ JustRan("BuildWeights") =>
            /\ StandardizeFlagsIslands("BuildWeights", "w_msm", w_msm)
            /\ StandardizeFlagsIslands("BuildWeights", "w_ber", w_ber)
    /\ JustRan("CentroidWeights") =>
            StandardizeFlagsIslands("CentroidWeights", "w_msm", w_msm)

\* Weights standardized with an island flagged and other features connected.
C12_Witness ==
    /\ JustRan("BuildWeights")
    /\ Cardinality(Islands(w_msm)) >= 1
    /\ FlaggedIslands("BuildWeights", "w_msm") = Islands(w_msm)
    /\ \E i \in DOMAIN w_msm.neighbors :
            /\ w_msm.neighbors[i] # {}
            /\ RSum(w_msm.weights[i], w_msm.neighbors[i]) = Rat(1)

\* The weights w and the attribute y are in the index space of the frame:
\* keyed by the row positions 0..n-1, entry i of each about row i.
IndexAligned(df, column, y, w) ==
    LET geoms == ActiveGeoms(df)
        n     == Cardinality(DOMAIN geoms)
    IN  /\ DOMAIN geoms = Ids(n)
        /\ DOMAIN w.neighbors = Ids(n)
        /\ DOMAIN w.weights = Ids(n)
        /\ \A i \in Ids(n) :
                /\ w.neighbors[i] \subseteq Ids(n)
                /\ DOMAIN w.weights[i] = w.neighbors[i]
                /\ w.neighbors[i] =
                        {j \in Ids(n) \ {i} :
                            ContigVerts(geoms[i]) \cap ContigVerts(geoms[j]) # {}}
        /\ DOMAIN y.data = Ids(n)
        /\ \A i \in Ids(n) : y.data[i] = column[i]

\* The per-feature output r has one entry for each row position of y.
OutputAligned(y, r) ==
    /\ DOMAIN r.q = DOMAIN y.data
    /\ DOMAIN r.Is = DOMAIN y.data
    /\ DOMAIN r.w.neighbors = DOMAIN y.data

\* C13: the weights a cell builds are keyed by the row positions 0..n-1 of
\* the frame, with neighbour ids in 0..n-1 and entry i the neighbours of row
\* i; the attribute handed to the statistics has the same keys, entry i the
\* value of row i; the global statistic counts n observations and the local
\* statistic has one entry per row position.
C13_IndexSpace ==
    /\ JustRan("BuildWeights") =>
            /\ IndexAligned(msm, msm.same_sex_m, y_msm, w_msm)
            /\ IndexAligned(ber, ber.price, y_ber, w_ber)
    /\ JustRan("CentroidWeights") =>
            IndexAligned(msm, msm.same_sex_m, y_msm, w_msm)
    /\ JustRan("GlobalMsm") =>
            /\ moran_msm.n = Cardinality(DOMAIN y_msm.data)
            /\ IndexAligned(msm, msm.same_sex_m, y_msm, moran_msm.w)
    /\ JustRan("GlobalBer") =>
            /\ moran_ber.n = Cardinality(DOMAIN y_ber.data)
            /\ IndexAligned(ber, ber.price, y_ber, moran_ber.w)
    /\ ((JustRan("LocalMsmPolygons") \/ JustRan("LocalMsm"))
            /\ "moran_loc_msm" \in bound) =>
            /\ OutputAligned(y_msm, moran_loc_msm)
            /\ IndexAligned(msm, msm.same_sex_m, y_msm, moran_loc_msm.w)
    /\ (JustRan("LocalBer") /\ "moran_loc_ber" \in bound) =>
            /\ OutputAligned(y_ber, moran_loc_ber)
            /\ IndexAligned(ber, ber.price, y_ber, moran_loc_ber.w)

\* A local statistic on a layout whose first and last rows differ in their
\* number of neighbours and in their values.
C13_Witness ==
    /\ JustRan("LocalMsm")
    /\ "moran_loc_msm" \in bound
    /\ LET last == Cardinality(DOMAIN y_msm.data) - 1
       IN  /\ last >= 2
           /\ Cardinality(moran_loc_msm.w.neighbors[0]) #
                    Cardinality(moran_loc_msm.w.neighbors[last])
           /\ y_msm.data[0] # y_msm.data[last]
    /\ OutputAligned(y_msm, moran_loc_msm)

\* C14 (as claimed): the cells that build and standardize weights and compute
\* the statistics, from the first weights to the last local statistic, leave
\* the frames as they found them: same geometries, active geometry, CRS,
\* columns and order.
C14_FramesImmutable ==
    [][(Rank(pc) >= Rank("BuildWeights") /\ Rank(pc) <= Rank("LocalBer")) =>
            (msm' = msm /\ ber' = ber)]_vars

\* The weights the notebook derives from a geometry column of msm.
DerivedWeights(geoms) == RowStandardize(QueenFromDataframe(geoms))

\* The LISA map of msm drawn by the cell.
LisaMapsMsm == {m \in shown : m.cell = "LisaMsm"}

\* C15: when the LISA map of msm has been drawn, msm has its polygons active
\* again, centroid i is still the centroid of polygon i, the map has one
\* class for each polygon in row order, and the classes are those of the
\* local statistic computed with the centroid-derived weights, while the
\* global statistic of msm was computed with the polygon-derived weights.
C15_LisaOnCentroidWeights ==
    JustRan("LisaMsm") =>
        /\ "LisaMsm" \notin errors
        /\ msm.active = "geometry"
        /\ DfCrs(msm) = USNationalAtlas
        /\ DOMAIN msm.centroid = DOMAIN msm.geometry
        /\ \A i \in DOMAIN msm.geometry :
                msm.centroid[i] = CentroidOf(msm.geometry[i])
        /\ moran_loc_msm.w = DerivedWeights(msm.centroid)
        /\ moran_msm.w = DerivedWeights(msm.geometry)
        /\ \E m \in LisaMapsMsm :
                /\ DOMAIN m.q = DOMAIN msm.geometry
                /\ m.q = MoranLocal(msm.same_sex_m, DerivedWeights(msm.centroid)).q

\* A LISA map with two classes, on counties whose centroid-derived neighbours
\* differ from their polygon-derived ones.
C15_Witness ==
    /\ JustRan("LisaMsm")
    /\ moran_loc_msm.w.neighbors # moran_msm.w.neighbors
    /\ Islands(moran_msm.w) = {}
    /\ \E m \in LisaMapsMsm :
            /\ m.q = moran_loc_msm.q
            /\ \E i, j \in DOMAIN m.q : m.q[i] # m.q[j]

\* The neighbour sets of w are symmetric and irreflexive, and are the ones
\* the contiguity build gave for the geometries, before standardization.
SymmetricIrreflexive(w, geoms) ==
    /\ \A i \in DOMAIN w.neighbors :
            /\ i \notin w.neighbors[i]
            /\ \A j \in w.neighbors[i] :
                    j \in DOMAIN w.neighbors /\ i \in w.neighbors[j]
    /\ w.transform = "R"
    /\ w.neighbors = QueenFromDataframe(geoms).neighbors
    /\ QueenFromDataframe(geoms).transform = "O"

\* C16: in every weights object a cell built and standardized, and in the
\* one a global statistic standardized again, j is a neighbour of i iff i is
\* a neighbour of j, no feature is its own neighbour, and the neighbour sets
\* are those of the contiguity build.
C16_SymmetricIrreflexive ==
    /\ (JustRan("BuildWeights") \/ JustRan("CentroidWeights")) =>
            SymmetricIrreflexive(w_msm, ActiveGeoms(msm))
    /\ JustRan("BuildWeights") => SymmetricIrreflexive(w_ber, ActiveGeoms(ber))
    /\ JustRan("GlobalMsm") => SymmetricIrreflexive(moran_msm.w, ActiveGeoms(msm))
    /\ JustRan("GlobalBer") => SymmetricIrreflexive(moran_ber.w, ActiveGeoms(ber))

\* Standardized weights of three or more features, some pair neighbours and
\* some pair not.
C16_Witness ==
    /\ JustRan("BuildWeights")
    /\ w_msm.transform = "R"
    /\ Cardinality(DOMAIN w_msm.neighbors) >= 3
    /\ \E i, j \in DOMAIN w_msm.neighbors :
            i # j /\ j \in w_msm.neighbors[i] /\ i \in w_msm.neighbors[j]
    /\ \E i, j \in DOMAIN w_msm.neighbors :
            i # j /\ j \notin w_msm.neighbors[i] /\ i \notin w_msm.neighbors[j]

=============================================================================
